---- MODULE Spec2Model ----
(***************************************************************************)
(* git-chat-assistant: the mediator actor of src/src/lib.rs.               *)
(*                                                                         *)
(* The host runtime delivers one invocation at a time (init, request,      *)
(* send, supervisor callback, channel event) and stores the state bytes    *)
(* the invocation returns.  Every handler is one action; the host's        *)
(* answers to spawn and send are chosen nondeterministically.              *)
(*                                                                         *)
(* Representation.  A Rust String is a sequence of text tokens, so that    *)
(* format!("{}{}", a, b) is a \o b.  Option<T> is a sequence of length at  *)
(* most one.  Result<T, E> is <<"Ok", v>> or <<"Err", e>>.  A byte string  *)
(* is <<"garbage">> (not JSON) or <<"json", v>> with v a JSON value.       *)
(***************************************************************************)
EXTENDS Integers, Sequences, FiniteSets, TLC

VARIABLES
    state,      \* Option<Vec<u8>>: what the host holds for the actor
    phase,      \* "created" | "running" | "init_failed" | "shutdown"
    call,       \* the last invocation: handler, inputs, returned value
    sends,      \* the host send calls of the last invocation, in order
    spawns,     \* the host spawn calls made so far, in order
    shutdowns,  \* the host shutdown calls of the last invocation
    ncalls,     \* invocations delivered so far
    init_payload \* the payload the host created the actor with

vars == <<state, phase, call, sends, spawns, shutdowns, ncalls, init_payload>>

\* Invocations the host delivers in one run of the model.
MaxCalls == 4

----------------------------------------------------------------------------
\* Strings, options, results

S(t) == <<t>>

None == <<>>

Some(x) == <<x>>

IsSome(o) == Len(o) = 1

Ok(v) == <<"Ok", v>>

Err(e) == <<"Err", e>>

IsOk(r) == r[1] = "Ok"

IsErr(r) == r[1] = "Err"

Unit == <<"unit">>

----------------------------------------------------------------------------
\* JSON values and byte strings (serde_json)

JNull == <<"null">>

JString(s) == <<"string", s>>

\* The number m * 10^(-e)
JNumber(m, e) == <<"number", m, e>>

IsJNumber(v) == v[1] = "number"

JArray(a) == <<"array", a>>

JObject(f) == <<"object", f>>

IsJString(v) == v[1] = "string"

IsJObject(v) == v[1] = "object"

IsJArray(v) == v[1] \in {"array", "u8_array"}

Garbage == <<"garbage">>

Bytes(v) == <<"json", v>>

IsJson(b) == b[1] = "json"

\* Option<String> field of a struct: null or a string, written by to_vec.
JOptString(o) == IF IsSome(o) THEN JString(o[1]) ELSE JNull

\* Option<String> field read by from_slice: a missing key or null is None, a
\* string is Some, anything else is a type error.
OptStringField(f, k) ==
    IF k \notin DOMAIN f THEN Ok(None)
    ELSE IF f[k] = JNull THEN Ok(None)
    ELSE IF IsJString(f[k]) THEN Ok(Some(f[k][2]))
    ELSE Err(S("invalid type"))

\* Vec<u8> as serde_json writes it: an array of the numbers of the bytes b.
JByteArray(b) == <<"u8_array", b>>

IsJByteArray(v) == v[1] = "u8_array"

----------------------------------------------------------------------------
\* GitChatState and its (de)serialization

GitChatState_new(actor_id, config, current_directory, workflow) ==
    [actor_id |-> actor_id,
     chat_state_actor_id |-> None,
     original_config |-> config,
     current_directory |-> current_directory,
     workflow |-> workflow]

\* Fault: the actor's own id is stored in place of the child's.
set_chat_state_actor_id_OwnId(self, chat_actor_id) ==
    [self EXCEPT !.chat_state_actor_id = Some(self.actor_id)]

\* Fault: the setter leaves the state as it was.
set_chat_state_actor_id_Noop(self, chat_actor_id) == self

set_chat_state_actor_id(self, chat_actor_id) ==
    [self EXCEPT !.chat_state_actor_id = Some(chat_actor_id)]

\* Fault: an absent child id is read as the empty string (unwrap_or_default).
get_chat_state_actor_id_OrDefault(self) ==
    IF IsSome(self.chat_state_actor_id)
    THEN Ok(self.chat_state_actor_id[1])
    ELSE Ok(<<>>)

get_chat_state_actor_id(self) ==
    IF IsSome(self.chat_state_actor_id)
    THEN Ok(self.chat_state_actor_id[1])
    ELSE Err(S("Chat state actor not initialized"))

\* #[derive(Serialize)] for GitChatState: all five fields are written, an
\* absent option as null.
to_vec_GitChatState(st) ==
    Bytes(JObject([actor_id |-> JString(st.actor_id),
                   chat_state_actor_id |-> JOptString(st.chat_state_actor_id),
                   original_config |-> st.original_config,
                   current_directory |-> JOptString(st.current_directory),
                   workflow |-> JOptString(st.workflow)]))

\* #[derive(Deserialize)] for GitChatState: a JSON object with a string
\* actor_id and some original_config; the three options may be missing;
\* unknown keys are ignored.
from_slice_GitChatState(b) ==
    IF ~IsJson(b) THEN Err(S("expected value"))
    ELSE IF ~IsJObject(b[2]) THEN Err(S("invalid type"))
    ELSE LET f == b[2][2]
             c == OptStringField(f, "chat_state_actor_id")
             d == OptStringField(f, "current_directory")
             w == OptStringField(f, "workflow")
         IN  IF "actor_id" \notin DOMAIN f THEN Err(S("missing field actor_id"))
             ELSE IF ~IsJString(f["actor_id"]) THEN Err(S("invalid type"))
             ELSE IF IsErr(c) THEN c
             ELSE IF "original_config" \notin DOMAIN f
                  THEN Err(S("missing field original_config"))
             ELSE IF IsErr(d) THEN d
             ELSE IF IsErr(w) THEN w
             ELSE Ok([actor_id |-> f["actor_id"][2],
                      chat_state_actor_id |-> c[2],
                      original_config |-> f["original_config"],
                      current_directory |-> d[2],
                      workflow |-> w[2]])

----------------------------------------------------------------------------
\* The request and response protocol

\* genai_types::Message: a role and text content blocks.
Message(role, text) == [role |-> role, content |-> <<text>>]

MessageJson(m) ==
    JObject([role |-> JString(S(m.role)),
             content |-> JArray(<<JString(m.content[1])>>)])

from_json_Message(v) ==
    IF ~IsJObject(v) THEN Err(S("invalid type"))
    ELSE LET f == v[2]
         IN  IF "role" \notin DOMAIN f THEN Err(S("missing field role"))
             ELSE IF ~IsJString(f["role"]) THEN Err(S("invalid type"))
             ELSE IF f["role"][2] \notin {S("user"), S("assistant")}
                  THEN Err(S("unknown variant"))
             ELSE IF "content" \notin DOMAIN f THEN Err(S("missing field content"))
             ELSE IF ~IsJArray(f["content"]) \/ IsJByteArray(f["content"])
                  THEN Err(S("invalid type"))
             ELSE IF Len(f["content"][2]) # 1 \/ ~IsJString(f["content"][2][1])
                  THEN Err(S("invalid type"))
             ELSE Ok(Message(f["role"][2][1], f["content"][2][1][2]))

\* enum GitChatRequest, #[serde(tag = "type")]
ReqGetChatStateActorId == [type |-> "GetChatStateActorId", message |-> None]

ReqAddMessage(m) == [type |-> "AddMessage", message |-> Some(m)]

ReqStartChat == [type |-> "StartChat", message |-> None]

from_slice_GitChatRequest(b) ==
    IF ~IsJson(b) THEN Err(S("expected value"))
    ELSE IF ~IsJObject(b[2]) THEN Err(S("invalid type"))
    ELSE LET f == b[2][2]
         IN  IF "type" \notin DOMAIN f THEN Err(S("missing field type"))
             ELSE IF ~IsJString(f["type"]) THEN Err(S("invalid type"))
             ELSE IF f["type"][2] = S("GetChatStateActorId")
                  THEN Ok(ReqGetChatStateActorId)
             ELSE IF f["type"][2] = S("StartChat") THEN Ok(ReqStartChat)
             ELSE IF f["type"][2] = S("AddMessage")
                  THEN IF "message" \notin DOMAIN f
                       THEN Err(S("missing field message"))
                       ELSE LET m == from_json_Message(f["message"])
                            IN  IF IsErr(m) THEN m ELSE Ok(ReqAddMessage(m[2]))
             ELSE Err(S("unknown variant"))

\* enum GitChatResponse, #[serde(tag = "type")]
RespChatStateActorId(actor_id) == <<"ChatStateActorId", actor_id>>

RespSuccess == <<"Success">>

RespError(message) == <<"Error", message>>

to_vec_GitChatResponse(r) ==
    Bytes(JObject(
        IF r[1] = "ChatStateActorId"
        THEN [type |-> JString(S("ChatStateActorId")), actor_id |-> JString(r[2])]
        ELSE IF r[1] = "Error"
        THEN [type |-> JString(S("Error")), message |-> JString(r[2])]
        ELSE [type |-> JString(S("Success"))]))

\* protocol::ChatStateRequest, the envelopes understood by the child.  The
\* module protocol is not part of the sources at hand; the layout written
\* here follows the outbound protocol of the specification, tagged like the
\* request and response enums.
EnvAddMessage(m) == <<"AddMessage", m>>

EnvGenerateCompletion == <<"GenerateCompletion">>

to_vec_ChatStateRequest(e) ==
    Bytes(JObject(
        IF e[1] = "AddMessage"
        THEN [type |-> JString(S("AddMessage")), message |-> MessageJson(e[2])]
        ELSE [type |-> JString(S("GenerateCompletion"))]))

----------------------------------------------------------------------------
\* Host primitives: what one call to the host is recorded as

\* message_server_host::send(actor_id, bytes) with the host's answer
SendCall(to, bytes, result) == [to |-> to, bytes |-> bytes, result |-> result]

\* supervisor::spawn(manifest_path, Some(initial_state_bytes)) with the answer
SpawnCall(manifest, bytes, result) ==
    [manifest |-> manifest, bytes |-> bytes, result |-> result]

\* format!("{:?}", e) of the host's error string
DebugFmt(e) == <<"\"">> \o e \o <<"\"">>

\* What a handler did: the value it returned and the host calls it made.
Effect(ret, snd, spw, shut) ==
    [ret |-> ret, sends |-> snd, spawns |-> spw, shutdowns |-> shut]

----------------------------------------------------------------------------
\* handle_request

AutoCommitMessage ==
    Message("user", S("Please analyze the current repository state and commit any pending changes with appropriate commit messages. Start by checking git status to see what files have changed."))

\* r1 and r2 are the host's answers to the first and to the second send; an
\* answer is consumed only if that send is made.
\* Fault: the generation request is sent even though the first send failed.
StartChatArm_KeepsGoing(git_state, r1, r2) ==
    IF IsSome(git_state.workflow) /\ git_state.workflow[1] = S("commit")
    THEN LET id == get_chat_state_actor_id(git_state)
         IN  IF IsOk(id)
             THEN LET first == SendCall(id[2],
                                  to_vec_ChatStateRequest(
                                      EnvAddMessage(AutoCommitMessage)), r1)
                      second == SendCall(id[2],
                                  to_vec_ChatStateRequest(
                                      EnvGenerateCompletion), r2)
                  IN  [response |->
                           IF IsErr(r1)
                           THEN RespError(S("Failed to send auto commit message: ")
                                          \o DebugFmt(r1[2]))
                           ELSE IF IsErr(r2)
                           THEN RespError(S("Failed to send auto generation request: ")
                                          \o DebugFmt(r2[2]))
                           ELSE RespSuccess,
                       sends |-> <<first, second>>]
             ELSE [response |->
                       RespError(S("Chat state actor not available for auto workflow: ")
                                 \o id[2]),
                   sends |-> <<>>]
    ELSE [response |-> RespSuccess, sends |-> <<>>]

\* Fault: the workflow tag is compared without regard to case.
StartChatArm_AnyCase(git_state, r1, r2) ==
    IF IsSome(git_state.workflow)
       /\ git_state.workflow[1] \in {S("commit"), S("Commit")}
    THEN LET id == get_chat_state_actor_id(git_state)
         IN  IF IsOk(id)
             THEN LET first == SendCall(id[2],
                                  to_vec_ChatStateRequest(
                                      EnvAddMessage(AutoCommitMessage)), r1)
                      second == SendCall(id[2],
                                  to_vec_ChatStateRequest(
                                      EnvGenerateCompletion), r2)
                  IN  IF IsOk(r1)
                      THEN IF IsOk(r2)
                           THEN [response |-> RespSuccess,
                                 sends |-> <<first, second>>]
                           ELSE [response |->
                                     RespError(S("Failed to send auto generation request: ")
                                               \o DebugFmt(r2[2])),
                                 sends |-> <<first, second>>]
                      ELSE [response |->
                                RespError(S("Failed to send auto commit message: ")
                                          \o DebugFmt(r1[2])),
                            sends |-> <<first>>]
             ELSE [response |->
                       RespError(S("Chat state actor not available for auto workflow: ")
                                 \o id[2]),
                   sends |-> <<>>]
    ELSE [response |-> RespSuccess, sends |-> <<>>]

\* Fault: the result of the generation request is dropped.
StartChatArm_IgnoresSecond(git_state, r1, r2) ==
    IF IsSome(git_state.workflow) /\ git_state.workflow[1] = S("commit")
    THEN LET id == get_chat_state_actor_id(git_state)
         IN  IF IsOk(id)
             THEN LET first == SendCall(id[2],
                                  to_vec_ChatStateRequest(
                                      EnvAddMessage(AutoCommitMessage)), r1)
                      second == SendCall(id[2],
                                  to_vec_ChatStateRequest(
                                      EnvGenerateCompletion), r2)
                  IN  IF IsOk(r1)
                      THEN [response |-> RespSuccess, sends |-> <<first, second>>]
                      ELSE [response |->
                                RespError(S("Failed to send auto commit message: ")
                                          \o DebugFmt(r1[2])),
                            sends |-> <<first>>]
             ELSE [response |->
                       RespError(S("Chat state actor not available for auto workflow: ")
                                 \o id[2]),
                   sends |-> <<>>]
    ELSE [response |-> RespSuccess, sends |-> <<>>]

\* Fault: a rejected first send is attempted once more.
StartChatArm_RetriesFirst(git_state, r1, r2) ==
    IF IsSome(git_state.workflow) /\ git_state.workflow[1] = S("commit")
    THEN LET id == get_chat_state_actor_id(git_state)
         IN  IF IsOk(id)
             THEN LET first == SendCall(id[2],
                                  to_vec_ChatStateRequest(
                                      EnvAddMessage(AutoCommitMessage)), r1)
                      again == SendCall(id[2],
                                  to_vec_ChatStateRequest(
                                      EnvAddMessage(AutoCommitMessage)), r2)
                      second == SendCall(id[2],
                                  to_vec_ChatStateRequest(
                                      EnvGenerateCompletion), r2)
                  IN  IF IsOk(r1)
                      THEN IF IsOk(r2)
                           THEN [response |-> RespSuccess,
                                 sends |-> <<first, second>>]
                           ELSE [response |->
                                     RespError(S("Failed to send auto generation request: ")
                                               \o DebugFmt(r2[2])),
                                 sends |-> <<first, second>>]
                      ELSE [response |->
                                RespError(S("Failed to send auto commit message: ")
                                          \o DebugFmt(r1[2])),
                            sends |-> <<first, again>>]
             ELSE [response |->
                       RespError(S("Chat state actor not available for auto workflow: ")
                                 \o id[2]),
                   sends |-> <<>>]
    ELSE [response |-> RespSuccess, sends |-> <<>>]

StartChatArm(git_state, r1, r2) ==
    IF IsSome(git_state.workflow)
    THEN IF git_state.workflow[1] = S("commit")
         THEN LET id == get_chat_state_actor_id(git_state)
              IN  IF IsOk(id)
                  THEN LET first == SendCall(id[2],
                                       to_vec_ChatStateRequest(
                                           EnvAddMessage(AutoCommitMessage)), r1)
                           second == SendCall(id[2],
                                       to_vec_ChatStateRequest(
                                           EnvGenerateCompletion), r2)
                       IN  IF IsOk(r1)
                           THEN IF IsOk(r2)
                                THEN [response |-> RespSuccess,
                                      sends |-> <<first, second>>]
                                ELSE [response |->
                                          RespError(S("Failed to send auto generation request: ")
                                                    \o DebugFmt(r2[2])),
                                      sends |-> <<first, second>>]
                           ELSE [response |->
                                     RespError(S("Failed to send auto commit message: ")
                                               \o DebugFmt(r1[2])),
                                 sends |-> <<first>>]
                  ELSE [response |->
                            RespError(S("Chat state actor not available for auto workflow: ")
                                      \o id[2]),
                        sends |-> <<>>]
         ELSE [response |-> RespSuccess, sends |-> <<>>]
    ELSE [response |-> RespSuccess, sends |-> <<>>]

GetChatStateActorIdArm(git_state) ==
    LET id == get_chat_state_actor_id(git_state)
    IN  IF IsOk(id)
        THEN [response |-> RespChatStateActorId(id[2]), sends |-> <<>>]
        ELSE [response |-> RespError(id[2]), sends |-> <<>>]

\* Fault: a failed generation request is followed by a second attempt.
AddMessageArm_Retries(git_state, message, r1, r2) ==
    LET id == get_chat_state_actor_id(git_state)
    IN  IF IsOk(id)
        THEN LET first == SendCall(id[2],
                             to_vec_ChatStateRequest(EnvAddMessage(message)), r1)
                 second == SendCall(id[2],
                             to_vec_ChatStateRequest(EnvGenerateCompletion), r2)
             IN  IF IsOk(r1)
                 THEN IF IsOk(r2)
                      THEN [response |-> RespSuccess, sends |-> <<first, second>>]
                      ELSE [response |->
                                RespError(S("Failed to send generation request: ")
                                          \o DebugFmt(r2[2])),
                            sends |-> <<first, second, second>>]
                 ELSE [response |->
                           RespError(S("Failed to forward message: ")
                                     \o DebugFmt(r1[2])),
                       sends |-> <<first>>]
        ELSE [response |-> RespError(id[2]), sends |-> <<>>]

\* Fault: the generation request is sent before the content message.
AddMessageArm_GenerationFirst(git_state, message, r1, r2) ==
    LET id == get_chat_state_actor_id(git_state)
    IN  IF IsOk(id)
        THEN LET first == SendCall(id[2],
                             to_vec_ChatStateRequest(EnvGenerateCompletion), r1)
                 second == SendCall(id[2],
                             to_vec_ChatStateRequest(EnvAddMessage(message)), r2)
             IN  IF IsOk(r1)
                 THEN IF IsOk(r2)
                      THEN [response |-> RespSuccess, sends |-> <<first, second>>]
                      ELSE [response |->
                                RespError(S("Failed to forward message: ")
                                          \o DebugFmt(r2[2])),
                            sends |-> <<first, second>>]
                 ELSE [response |->
                           RespError(S("Failed to send generation request: ")
                                     \o DebugFmt(r1[2])),
                       sends |-> <<first>>]
        ELSE [response |-> RespError(id[2]), sends |-> <<>>]

\* Fault: the generation request is addressed to the actor itself.
AddMessageArm_SecondToSelf(git_state, message, r1, r2) ==
    LET id == get_chat_state_actor_id(git_state)
    IN  IF IsOk(id)
        THEN LET first == SendCall(id[2],
                             to_vec_ChatStateRequest(EnvAddMessage(message)), r1)
                 second == SendCall(git_state.actor_id,
                             to_vec_ChatStateRequest(EnvGenerateCompletion), r2)
             IN  IF IsOk(r1)
                 THEN IF IsOk(r2)
                      THEN [response |-> RespSuccess, sends |-> <<first, second>>]
                      ELSE [response |->
                                RespError(S("Failed to send generation request: ")
                                          \o DebugFmt(r2[2])),
                            sends |-> <<first, second>>]
                 ELSE [response |->
                           RespError(S("Failed to forward message: ")
                                     \o DebugFmt(r1[2])),
                       sends |-> <<first>>]
        ELSE [response |-> RespError(id[2]), sends |-> <<>>]

AddMessageArm(git_state, message, r1, r2) ==
    LET id == get_chat_state_actor_id(git_state)
    IN  IF IsOk(id)
        THEN LET first == SendCall(id[2],
                             to_vec_ChatStateRequest(EnvAddMessage(message)), r1)
                 second == SendCall(id[2],
                             to_vec_ChatStateRequest(EnvGenerateCompletion), r2)
             IN  IF IsOk(r1)
                 THEN IF IsOk(r2)
                      THEN [response |-> RespSuccess, sends |-> <<first, second>>]
                      ELSE [response |->
                                RespError(S("Failed to send generation request: ")
                                          \o DebugFmt(r2[2])),
                            sends |-> <<first, second>>]
                 ELSE [response |->
                           RespError(S("Failed to forward message: ")
                                     \o DebugFmt(r1[2])),
                       sends |-> <<first>>]
        ELSE [response |-> RespError(id[2]), sends |-> <<>>]

\* The value handle_request returns: Ok((state, (response,)))
RequestReturn(new_state, response) ==
    Ok(<<new_state, Some(to_vec_GitChatResponse(response))>>)

\* Fault: the failure is returned as the handler's own error.
state_failure_Hard(error_msg) == Effect(Err(error_msg), <<>>, <<>>, 0)

\* Fault: a lost state is replaced by a new, empty one.
state_failure_Reinitializes(error_msg) ==
    Effect(RequestReturn(Some(to_vec_GitChatState(
                                  GitChatState_new(<<>>, JNull, None, None))),
                         RespError(error_msg)),
           <<>>, <<>>, 0)

\* The state is absent or does not deserialize: an Error response and no state
state_failure(error_msg) ==
    Effect(RequestReturn(None, RespError(error_msg)), <<>>, <<>>, 0)

\* Fault: the state is dropped as on the state-failure path.
request_failure_DropsState(git_state, e) ==
    Effect(RequestReturn(None, RespError(S("Failed to parse request: ") \o e)),
           <<>>, <<>>, 0)

\* The request does not deserialize: an Error response and the state as it was
request_failure(git_state, e) ==
    Effect(RequestReturn(Some(to_vec_GitChatState(git_state)),
                         RespError(S("Failed to parse request: ") \o e)),
           <<>>, <<>>, 0)

\* match request { ... }
dispatch(git_state, request, r1, r2) ==
    IF request.type = "StartChat" THEN StartChatArm(git_state, r1, r2)
    ELSE IF request.type = "GetChatStateActorId"
    THEN GetChatStateActorIdArm(git_state)
    ELSE AddMessageArm(git_state, request.message[1], r1, r2)

\* Fault: a StartChat that ran clears the workflow tag so that it runs once.
handle_request_ConsumesWorkflow(st, data, r1, r2) ==
    IF ~IsSome(st)
    THEN state_failure(S("No state available"))
    ELSE LET parsed == from_slice_GitChatState(st[1])
         IN  IF IsErr(parsed)
             THEN state_failure(S("Failed to deserialize git state: ") \o parsed[2])
             ELSE LET git_state == parsed[2]
                      request == from_slice_GitChatRequest(data)
                  IN  IF IsErr(request)
                      THEN request_failure(git_state, request[2])
                      ELSE LET arm == dispatch(git_state, request[2], r1, r2)
                               kept == IF request[2].type = "StartChat"
                                       THEN [git_state EXCEPT !.workflow = None]
                                       ELSE git_state
                           IN  Effect(RequestReturn(Some(to_vec_GitChatState(kept)),
                                                    arm.response),
                                      arm.sends, <<>>, 0)

\* The early returns of the StartChat arm build the same value as the end of
\* the function: the serialized state and the serialized response.
handle_request(st, data, r1, r2) ==
    IF ~IsSome(st)
    THEN state_failure(S("No state available"))
    ELSE LET parsed == from_slice_GitChatState(st[1])
         IN  IF IsErr(parsed)
             THEN state_failure(S("Failed to deserialize git state: ") \o parsed[2])
             ELSE LET git_state == parsed[2]
                      request == from_slice_GitChatRequest(data)
                  IN  IF IsErr(request)
                      THEN request_failure(git_state, request[2])
                      ELSE LET arm == dispatch(git_state, request[2], r1, r2)
                           IN  Effect(RequestReturn(Some(to_vec_GitChatState(git_state)),
                                                    arm.response),
                                      arm.sends, <<>>, 0)

----------------------------------------------------------------------------
\* GitAssistantConfig and create_git_optimized_config

NamedFields ==
    {"current_directory", "workflow", "model_config", "temperature",
     "max_tokens", "system_prompt", "title", "description", "mcp_servers"}

EmptyMap == [k \in {} |-> JNull]

GitAssistantConfig_default ==
    [current_directory |-> None, workflow |-> None, model_config |-> None,
     temperature |-> None, max_tokens |-> None, system_prompt |-> None,
     title |-> None, description |-> None, mcp_servers |-> None,
     other |-> JObject(EmptyMap)]

\* Option<Value>: a missing key or null is None, any other value is Some.
OptValueField(f, k) ==
    IF k \notin DOMAIN f THEN Ok(None)
    ELSE IF f[k] = JNull THEN Ok(None)
    ELSE Ok(Some(f[k]))

\* Option<f64>: any JSON number.
OptF64Field(f, k) ==
    IF k \notin DOMAIN f THEN Ok(None)
    ELSE IF f[k] = JNull THEN Ok(None)
    ELSE IF IsJNumber(f[k]) THEN Ok(Some(f[k]))
    ELSE Err(S("invalid type"))

\* Option<u32>: a JSON integer in 0 .. u32::MAX.  Every integer of the model
\* is below 2^31, so only the lower end can be missed.
OptU32Field(f, k) ==
    IF k \notin DOMAIN f THEN Ok(None)
    ELSE IF f[k] = JNull THEN Ok(None)
    ELSE IF ~IsJNumber(f[k]) THEN Err(S("invalid type"))
    ELSE IF f[k][3] # 0 \/ f[k][2] < 0
         THEN Err(S("invalid value"))
    ELSE Ok(Some(f[k]))

\* #[derive(Deserialize)] for GitAssistantConfig: the nine named fields, and
\* #[serde(flatten)] other: every key that is not a named field.
from_slice_GitAssistantConfig(b) ==
    IF ~IsJson(b) THEN Err(S("expected value"))
    ELSE IF ~IsJObject(b[2]) THEN Err(S("invalid type"))
    ELSE LET f == b[2][2]
             cd == OptStringField(f, "current_directory")
             wf == OptStringField(f, "workflow")
             mc == OptValueField(f, "model_config")
             te == OptF64Field(f, "temperature")
             mt == OptU32Field(f, "max_tokens")
             sp == OptStringField(f, "system_prompt")
             ti == OptStringField(f, "title")
             de == OptStringField(f, "description")
             ms == OptValueField(f, "mcp_servers")
             all == <<cd, wf, mc, te, mt, sp, ti, de, ms>>
             bad == {i \in DOMAIN all : IsErr(all[i])}
         IN  IF bad # {} THEN all[CHOOSE i \in bad : \A j \in bad : i <= j]
             ELSE Ok([current_directory |-> cd[2], workflow |-> wf[2],
                      model_config |-> mc[2], temperature |-> te[2],
                      max_tokens |-> mt[2], system_prompt |-> sp[2],
                      title |-> ti[2], description |-> de[2],
                      mcp_servers |-> ms[2],
                      other |-> JObject([k \in DOMAIN f \ NamedFields |-> f[k]])])

directory_context(current_directory) ==
    IF IsSome(current_directory)
    THEN S("\n\nCURRENT WORKING DIRECTORY: ") \o current_directory[1]
         \o S("\nWhen using git tools, operate within this directory unless explicitly told otherwise. This is the repository you should focus on for all git operations.")
    ELSE <<>>

CommitBlock == S("\n\nWORKFLOW: AUTOMATIC COMMIT\nYour primary task is to analyze the current repository state and create appropriate commits: ...")

ReviewBlock == S("\n\nWORKFLOW: CODE REVIEW\nYour primary task is to review code changes and provide feedback: ...")

RebaseBlock == S("\n\nWORKFLOW: INTERACTIVE REBASE\nYour primary task is to help with git rebase operations: ...")

\* Fault: the workflow tag is matched without regard to case.
workflow_context_AnyCase(workflow) ==
    IF ~IsSome(workflow) THEN <<>>
    ELSE IF workflow[1] \in {S("commit"), S("Commit")} THEN CommitBlock
    ELSE IF workflow[1] = S("review") THEN ReviewBlock
    ELSE IF workflow[1] = S("rebase") THEN RebaseBlock
    ELSE <<>>

workflow_context(workflow) ==
    IF ~IsSome(workflow) THEN <<>>
    ELSE IF workflow[1] = S("commit") THEN CommitBlock
    ELSE IF workflow[1] = S("review") THEN ReviewBlock
    ELSE IF workflow[1] = S("rebase") THEN RebaseBlock
    ELSE <<>>

DefaultPromptText == S("You are a Git assistant with access to git tools. You can help with: ... - Explain the impact of changes when relevant")

default_git_system_prompt(dir_ctx, wf_ctx) == DefaultPromptText \o dir_ctx \o wf_ctx

\* Fault: the two context blocks are appended in the other order.
final_system_prompt_WorkflowFirst(config, dir_ctx, wf_ctx) ==
    IF IsSome(config.system_prompt)
    THEN config.system_prompt[1] \o wf_ctx \o dir_ctx
    ELSE default_git_system_prompt(dir_ctx, wf_ctx)

final_system_prompt(config, dir_ctx, wf_ctx) ==
    IF IsSome(config.system_prompt)
    THEN config.system_prompt[1] \o dir_ctx \o wf_ctx
    ELSE default_git_system_prompt(dir_ctx, wf_ctx)

default_model_config ==
    JObject([model |-> JString(S("claude-sonnet-4-20250514")),
             provider |-> JString(S("anthropic"))])

default_mcp_servers(self_id) ==
    JArray(<<
        JObject([actor_id |-> JNull,
                 actor |-> JObject([manifest_path |->
                     JString(S("/Users/colinrozzi/work/actor-registry/git-mcp-actor/manifest.toml"))]),
                 tools |-> JNull]),
        JObject([actor_id |-> JNull,
                 actor |-> JObject([manifest_path |->
                     JString(S("/Users/colinrozzi/work/actor-registry/task-monitor-mcp-actor/manifest.toml"))]),
                 config |-> JObject([management_actor |-> JString(self_id)]),
                 tools |-> JNull])
    >>)

UnwrapOr(o, d) == IF IsSome(o) THEN o[1] ELSE d

DefaultTemperatureTenths == 7

DefaultMaxTokens == 8192

\* Fault: a supplied server list is extended by the default servers.
fixed_config_AppendsDefaults(self_id, current_directory, config) ==
    [model_config |-> UnwrapOr(config.model_config, default_model_config),
     temperature |-> UnwrapOr(config.temperature,
                              JNumber(DefaultTemperatureTenths, 1)),
     max_tokens |-> UnwrapOr(config.max_tokens, JNumber(DefaultMaxTokens, 0)),
     system_prompt |-> JString(final_system_prompt(config,
                           directory_context(current_directory),
                           workflow_context(config.workflow))),
     title |-> JString(UnwrapOr(config.title, S("Git Assistant"))),
     description |-> JString(UnwrapOr(config.description,
         S("AI assistant with git tools for repository management and commit workflows"))),
     mcp_servers |->
         IF IsSome(config.mcp_servers) /\ config.mcp_servers[1][1] = "array"
         THEN JArray(config.mcp_servers[1][2] \o default_mcp_servers(self_id)[2])
         ELSE UnwrapOr(config.mcp_servers, default_mcp_servers(self_id))]

\* The seven fixed keys of the json!({...}) literal
fixed_config(self_id, current_directory, config) ==
    [model_config |-> UnwrapOr(config.model_config, default_model_config),
     temperature |-> UnwrapOr(config.temperature,
                              JNumber(DefaultTemperatureTenths, 1)),
     max_tokens |-> UnwrapOr(config.max_tokens, JNumber(DefaultMaxTokens, 0)),
     system_prompt |-> JString(final_system_prompt(config,
                           directory_context(current_directory),
                           workflow_context(config.workflow))),
     title |-> JString(UnwrapOr(config.title, S("Git Assistant"))),
     description |-> JString(UnwrapOr(config.description,
         S("AI assistant with git tools for repository management and commit workflows"))),
     mcp_servers |-> UnwrapOr(config.mcp_servers, default_mcp_servers(self_id))]

\* Fault: the loop over config.other is missing.
merge_other_DropsOther(obj, other) == obj

\* The loop over config.other: a key is inserted only if obj does not hold it.
merge_other(obj, other) ==
    IF IsJObject(other)
    THEN [k \in DOMAIN obj \cup DOMAIN other[2] |->
              IF k \in DOMAIN obj THEN obj[k] ELSE other[2][k]]
    ELSE obj

create_git_optimized_config(self_id, current_directory, config) ==
    JObject(merge_other(fixed_config(self_id, current_directory, config),
                        config.other))

----------------------------------------------------------------------------
\* init and spawn_chat_state_actor

ChatStateManifest == S("/Users/colinrozzi/work/actor-registry/chat-state/manifest.toml")

\* Fault: the configuration is handed to the child without the envelope.
spawn_chat_state_actor_NoEnvelope(chat_config, host_result) ==
    LET made == SpawnCall(ChatStateManifest, Some(Bytes(chat_config)), host_result)
    IN  IF IsOk(host_result)
        THEN [result |-> Ok(host_result[2]), spawns |-> <<made>>]
        ELSE [result |-> Err(S("Spawn failed: ") \o DebugFmt(host_result[2])),
              spawns |-> <<made>>]

\* host_result is the host's answer to spawn.
spawn_chat_state_actor(chat_config, host_result) ==
    LET initial_state == JObject([config |-> chat_config])
        made == SpawnCall(ChatStateManifest, Some(Bytes(initial_state)), host_result)
    IN  IF IsOk(host_result)
        THEN [result |-> Ok(host_result[2]), spawns |-> <<made>>]
        ELSE [result |-> Err(S("Spawn failed: ") \o DebugFmt(host_result[2])),
              spawns |-> <<made>>]

\* (git_config, current_directory, workflow) of the parsed payload
init_config(st, self_id) ==
    IF IsSome(st)
    THEN LET parsed == from_slice_GitAssistantConfig(st[1])
         IN  IF IsOk(parsed)
             THEN <<create_git_optimized_config(self_id,
                        parsed[2].current_directory, parsed[2]),
                    parsed[2].current_directory, parsed[2].workflow>>
             ELSE <<create_git_optimized_config(self_id, None,
                        GitAssistantConfig_default), None, None>>
    ELSE <<create_git_optimized_config(self_id, None, GitAssistantConfig_default),
           None, None>>

\* Fault: a failed spawn is logged and init goes on without a child.
init_Degraded(st, self_id, host_result) ==
    LET cfg == init_config(st, self_id)
        git_state == GitChatState_new(self_id, cfg[1], cfg[2], cfg[3])
        spawned == spawn_chat_state_actor(cfg[1], host_result)
    IN  IF IsOk(spawned.result)
        THEN Effect(Ok(<<Some(to_vec_GitChatState(
                             set_chat_state_actor_id(git_state, spawned.result[2])))>>),
                    <<>>, spawned.spawns, 0)
        ELSE Effect(Ok(<<Some(to_vec_GitChatState(git_state))>>),
                    <<>>, spawned.spawns, 0)

\* Fault: a payload that does not deserialize makes init fail.
init_RejectsInvalid(st, self_id, host_result) ==
    IF IsSome(st) /\ IsErr(from_slice_GitAssistantConfig(st[1]))
    THEN Effect(Err(S("Failed to parse initial config: ")
                    \o from_slice_GitAssistantConfig(st[1])[2]),
                <<>>, <<>>, 0)
    ELSE LET cfg == init_config(st, self_id)
             git_state == GitChatState_new(self_id, cfg[1], cfg[2], cfg[3])
             spawned == spawn_chat_state_actor(cfg[1], host_result)
         IN  IF IsOk(spawned.result)
             THEN Effect(Ok(<<Some(to_vec_GitChatState(
                                  set_chat_state_actor_id(git_state,
                                                          spawned.result[2])))>>),
                         <<>>, spawned.spawns, 0)
             ELSE Effect(Err(S("Failed to spawn chat state actor: ")
                             \o spawned.result[2]),
                         <<>>, spawned.spawns, 0)

init(st, self_id, host_result) ==
    LET cfg == init_config(st, self_id)
        git_state == GitChatState_new(self_id, cfg[1], cfg[2], cfg[3])
        spawned == spawn_chat_state_actor(cfg[1], host_result)
    IN  IF IsOk(spawned.result)
        THEN Effect(Ok(<<Some(to_vec_GitChatState(
                             set_chat_state_actor_id(git_state, spawned.result[2])))>>),
                    <<>>, spawned.spawns, 0)
        ELSE Effect(Err(S("Failed to spawn chat state actor: ") \o spawned.result[2]),
                    <<>>, spawned.spawns, 0)

----------------------------------------------------------------------------
\* handle_send, the supervisor callbacks and the channel handlers

\* #[derive(Deserialize)] struct TaskComplete; a unit struct is JSON null.
from_slice_TaskComplete(b) ==
    IF ~IsJson(b) THEN Err(S("expected value"))
    ELSE IF b[2] = JNull THEN Ok(Unit)
    ELSE Err(S("invalid type"))

\* serde_json::from_slice::<Vec<u8>>: a JSON array of numbers 0..255.
from_slice_VecU8(b) ==
    IF ~IsJson(b) THEN Err(S("expected value"))
    ELSE IF ~IsJByteArray(b[2]) THEN Err(S("invalid type"))
    ELSE Ok(b[2][2])

to_vec_VecU8(v) == Bytes(JByteArray(v))

\* Fault: the signal is parsed from the message payload.
handle_send_ParsesPayload(st, params) ==
    IF ~IsSome(st)
    THEN Effect(Err(S("No state available")), <<>>, <<>>, 0)
    ELSE LET msg == from_slice_TaskComplete(params[1])
         IN  IF IsOk(msg)
             THEN Effect(Ok(<<st>>), <<>>, <<>>, 1)
             ELSE Effect(Err(S("Failed to parse message: ") \o msg[2]),
                         <<>>, <<>>, 0)

\* _params is never read.
handle_send(st, params) ==
    IF ~IsSome(st)
    THEN Effect(Err(S("No state available")), <<>>, <<>>, 0)
    ELSE LET parsed_state == from_slice_VecU8(st[1])
         IN  IF IsErr(parsed_state)
             THEN Effect(Err(S("Failed to deserialize state: ") \o parsed_state[2]),
                         <<>>, <<>>, 0)
             ELSE LET msg == from_slice_TaskComplete(parsed_state[2])
                  IN  IF IsOk(msg)
                      THEN Effect(Ok(<<Some(to_vec_VecU8(parsed_state[2]))>>),
                                  <<>>, <<>>, 1)
                      ELSE Effect(Err(S("Failed to parse message: ") \o msg[2]),
                                  <<>>, <<>>, 0)

\* Fault: a failed child is replaced by a newly spawned one.
handle_child_error_Respawns(st, params) ==
    Effect(Ok(<<st>>), <<>>,
           <<SpawnCall(ChatStateManifest, None, Ok(params[1]))>>, 0)

handle_child_error(st, params) == Effect(Ok(<<st>>), <<>>, <<>>, 0)

\* Fault: the exit of the child is taken as the end of the link to it.
handle_child_exit_ClearsChild(st, params) ==
    IF IsSome(st) /\ IsOk(from_slice_GitChatState(st[1]))
    THEN Effect(Ok(<<Some(to_vec_GitChatState(
                         [from_slice_GitChatState(st[1])[2]
                              EXCEPT !.chat_state_actor_id = None]))>>),
                <<>>, <<>>, 0)
    ELSE Effect(Ok(<<st>>), <<>>, <<>>, 0)

handle_child_exit(st, params) == Effect(Ok(<<st>>), <<>>, <<>>, 0)

ChannelAccept(accepted, message) == [accepted |-> accepted, message |-> message]

handle_channel_open(st, params) ==
    Effect(Ok(<<st, ChannelAccept(TRUE, None)>>), <<>>, <<>>, 0)

handle_channel_close(st, params) == Effect(Ok(<<st>>), <<>>, <<>>, 0)

handle_channel_message(st, params) == Effect(Ok(<<st>>), <<>>, <<>>, 0)

----------------------------------------------------------------------------
\* What the host may hand to the actor

SelfIds == {S("git-chat-1"), S("git-chat-2")}

ChildIds == {S("child-1"), S("child-2")}

HostErrors == {S("actor not found"), S("mailbox closed")}

SendResults == {Ok(Unit)} \cup {Err(e) : e \in HostErrors}

SpawnResults == {Ok(c) : c \in ChildIds} \cup {Err(e) : e \in HostErrors}

Messages == {Message("user", S("what changed?")), Message("assistant", S("done"))}

RequestPayloads ==
    {Garbage,
     Bytes(JNull),
     Bytes(JObject([type |-> JString(S("StartChat"))])),
     Bytes(JObject([type |-> JString(S("GetChatStateActorId"))])),
     Bytes(JObject([type |-> JString(S("AddMessage"))])),
     Bytes(JObject([type |-> JString(S("Shutdown"))])),
     Bytes(JObject([message |-> MessageJson(Message("user", S("what changed?")))]))}
    \cup {Bytes(JObject([type |-> JString(S("AddMessage")),
                         message |-> MessageJson(m)])) : m \in Messages}

SendPayloads == {Bytes(JNull), Garbage}

InitConfigs ==
    {EmptyMap,
     [workflow |-> JString(S("commit"))],
     [workflow |-> JString(S("review")), current_directory |-> JString(S("/repo"))],
     [workflow |-> JString(S("deploy")), current_directory |-> JString(S("/repo"))],
     [workflow |-> JString(S("rebase")), system_prompt |-> JString(S("Be terse."))],
     [workflow |-> JString(S("commit")), max_tokens |-> JNumber(-1, 0)],
     [workflow |-> JString(S("commit")), temperature |-> JNumber(2, 1),
      max_tokens |-> JNumber(1024, 0), title |-> JString(S("T")),
      mcp_servers |-> JArray(<<>>), session |-> JString(S("s-1"))]}

InitPayloads ==
    {None, Some(Garbage)} \cup {Some(Bytes(JObject(f))) : f \in InitConfigs}

Workflows ==
    {None, Some(S("commit")), Some(S("review")), Some(S("rebase")),
     Some(S("deploy")), Some(S("Commit"))}

SomeConfig == JObject([title |-> JString(S("Git Assistant"))])

\* Deserialized states a host may restore, with and without a child id
ValidStates ==
    {[actor_id |-> S("git-chat-1"), chat_state_actor_id |-> c,
      original_config |-> SomeConfig, current_directory |-> d, workflow |-> w] :
        c \in {None} \cup {Some(x) : x \in ChildIds},
        d \in {None, Some(S("/repo"))},
        w \in Workflows}

\* State bytes that are not what to_vec writes: missing options, an unknown
\* key, a missing required field, a wrong type, no JSON, a byte array
OddStateBytes ==
    {Garbage,
     Bytes(JNull),
     Bytes(JObject([actor_id |-> JString(S("git-chat-1")),
                    original_config |-> JNull])),
     Bytes(JObject([actor_id |-> JString(S("git-chat-1")),
                    original_config |-> SomeConfig,
                    chat_state_actor_id |-> JString(S("child-1")),
                    workflow |-> JString(S("commit")),
                    restored_by |-> JString(S("host"))])),
     Bytes(JObject([chat_state_actor_id |-> JString(S("child-1")),
                    original_config |-> SomeConfig])),
     Bytes(JObject([actor_id |-> JString(S("git-chat-1")),
                    original_config |-> SomeConfig,
                    chat_state_actor_id |-> JNumber(1, 0)])),
     Bytes(JByteArray(Bytes(JNull))),
     Bytes(JByteArray(Garbage))}

RestoredStates ==
    {None} \cup {Some(to_vec_GitChatState(st)) : st \in ValidStates}
           \cup {Some(b) : b \in OddStateBytes}

\* Initial payloads for the composition of the child's configuration: every
\* combination of the fields the composition reads, each missing, null or
\* given, together with keys GitAssistantConfig does not name.
CustomServer ==
    JObject([actor_id |-> JString(S("mcp-7")), tools |-> JNull])

ConfigChoices ==
    [system_prompt : {None, Some(JNull), Some(JString(<<>>)),
                      Some(JString(S("Be terse.")))},
     workflow : {None} \cup {Some(JString(w[1])) : w \in Workflows \ {None}},
     current_directory : {None, Some(JString(S("/repo")))},
     mcp_servers : {None, Some(JNull), Some(JArray(<<>>)),
                    Some(JArray(<<CustomServer>>))},
     title : {None, Some(JString(S("T")))}]

ExtraKeys ==
    {EmptyMap,
     [session |-> JString(S("s-1"))],
     [session |-> JString(S("s-1")),
      Title |-> JString(S("Mine")),
      model |-> JObject([model |-> JString(S("other"))]),
      retries |-> JNumber(3, 0)]}

\* The JSON object with the keys of c that are given, and the keys of extra
ConfigObject(c, extra) ==
    [k \in {x \in DOMAIN c : IsSome(c[x])} \cup DOMAIN extra |->
         IF k \in DOMAIN extra THEN extra[k] ELSE c[k][1]]

\* Objects that are no GitAssistantConfig although they supply fields of one
UndecodableConfigs ==
    {[mcp_servers |-> JArray(<<CustomServer>>), session |-> JString(S("s-1")),
      max_tokens |-> JNumber(-1, 0)],
     [system_prompt |-> JString(S("Be terse.")), title |-> JNumber(5, 0),
      workflow |-> JString(S("commit"))]}

ConfigPayloads ==
    InitPayloads
    \cup {Some(Bytes(JObject(ConfigObject(c, extra)))) :
              c \in ConfigChoices, extra \in ExtraKeys}
    \cup {Some(Bytes(JObject(f))) : f \in UndecodableConfigs}

----------------------------------------------------------------------------
\* The host: one invocation at a time

NoCall == [handler |-> "none", in_state |-> None, params |-> <<>>, ret |-> Ok(<<>>)]

Invocation(handler, params, eff) ==
    [handler |-> handler, in_state |-> state, params |-> params, ret |-> eff.ret]

\* The host stores the state an Ok return carries; an Err return carries none
\* and the stored state stays.  A shutdown request ends the actor.
Deliver(handler, params, effect) ==
    \E eff \in {effect} :
    /\ call' = Invocation(handler, params, eff)
    /\ state' = (IF IsOk(eff.ret) THEN eff.ret[2][1] ELSE state)
    /\ sends' = eff.sends
    /\ spawns' = spawns \o eff.spawns
    /\ shutdowns' = eff.shutdowns
    /\ phase' = (IF eff.shutdowns > 0 THEN "shutdown" ELSE phase)
    /\ ncalls' = ncalls + 1
    /\ UNCHANGED init_payload

Running == phase = "running" /\ ncalls < MaxCalls

\* init is invoked once, with the initial payload as its state.  If it fails
\* there is no actor and no state.
CallInit ==
    /\ phase = "created"
    /\ \E self_id \in SelfIds, r \in SpawnResults :
           \E eff \in {init(state, self_id, r)} :
               /\ call' = Invocation("init", <<self_id>>, eff)
               /\ state' = (IF IsOk(eff.ret) THEN eff.ret[2][1] ELSE None)
               /\ phase' = (IF IsOk(eff.ret) THEN "running" ELSE "init_failed")
               /\ sends' = eff.sends
               /\ spawns' = spawns \o eff.spawns
               /\ shutdowns' = eff.shutdowns
               /\ UNCHANGED <<ncalls, init_payload>>

CallHandleRequest ==
    /\ Running
    /\ \E data \in RequestPayloads, r1 \in SendResults, r2 \in SendResults :
           Deliver("handle_request", <<S("req"), data>>,
                   handle_request(state, data, r1, r2))

CallHandleSend ==
    /\ Running
    /\ \E data \in SendPayloads :
           Deliver("handle_send", <<data>>, handle_send(state, <<data>>))

CallHandleChildError ==
    /\ Running
    /\ \E child \in ChildIds, e \in HostErrors :
           Deliver("handle_child_error", <<child, e>>,
                   handle_child_error(state, <<child, e>>))

CallHandleChildExit ==
    /\ Running
    /\ \E child \in ChildIds :
           Deliver("handle_child_exit", <<child, None>>,
                   handle_child_exit(state, <<child, None>>))

CallHandleChannelOpen ==
    /\ Running
    /\ \E data \in SendPayloads :
           Deliver("handle_channel_open", <<S("chan"), data>>,
                   handle_channel_open(state, <<S("chan"), data>>))

CallHandleChannelClose ==
    /\ Running
    /\ Deliver("handle_channel_close", <<S("chan")>>,
               handle_channel_close(state, <<S("chan")>>))

CallHandleChannelMessage ==
    /\ Running
    /\ \E data \in SendPayloads :
           Deliver("handle_channel_message", <<S("chan"), data>>,
                   handle_channel_message(state, <<S("chan"), data>>))

\* A new actor: the host holds the initial payload and has not called init.
InitFresh ==
    /\ state \in InitPayloads
    /\ phase = "created"
    /\ call = NoCall
    /\ sends = <<>>
    /\ spawns = <<>>
    /\ shutdowns = 0
    /\ ncalls = 0
    /\ init_payload = state

\* An actor whose state the host restored from storage: any bytes at all.
\* What it was once created with is not recorded.
InitRestored ==
    /\ state \in RestoredStates
    /\ phase = "running"
    /\ call = NoCall
    /\ sends = <<>>
    /\ spawns = <<>>
    /\ shutdowns = 0
    /\ ncalls = 0
    /\ init_payload = None

Init == InitFresh \/ InitRestored

Next ==
    \/ CallInit
    \/ CallHandleRequest
    \/ CallHandleSend
    \/ CallHandleChildError
    \/ CallHandleChildExit
    \/ CallHandleChannelOpen
    \/ CallHandleChannelClose
    \/ CallHandleChannelMessage

\* Every state the handlers can be invoked with
Spec == Init /\ [][Next]_vars

\* The lifecycle of a new actor: init, then the handlers on what init returned
SpecFresh == InitFresh /\ [][Next]_vars

\* A new actor with any of the configuration payloads
InitConfig ==
    /\ state \in ConfigPayloads
    /\ phase = "created"
    /\ call = NoCall
    /\ sends = <<>>
    /\ spawns = <<>>
    /\ shutdowns = 0
    /\ ncalls = 0
    /\ init_payload = state

NextConfig == CallInit

\* init alone, on every configuration payload: what the child is spawned with
SpecConfig == InitConfig /\ [][NextConfig]_vars

----------------------------------------------------------------------------
\* Reading the last invocation

IsRequest == call.handler = "handle_request"

Payload == call.params[2]

\* The invocation was a request and its input state deserialized.
InValid ==
    /\ IsRequest
    /\ IsSome(call.in_state)
    /\ IsOk(from_slice_GitChatState(call.in_state[1]))

InGitState == from_slice_GitChatState(call.in_state[1])[2]

InChildSet == InValid /\ IsSome(InGitState.chat_state_actor_id)

InChild == InGitState.chat_state_actor_id[1]

InCommit == InValid /\ InGitState.workflow = Some(S("commit"))

ReturnedState == call.ret[2][1]

Response == call.ret[2][2][1]

ResponseIs(r) ==
    IsOk(call.ret) /\ call.ret[2][2] = Some(to_vec_GitChatResponse(r))

IsErrorResponse ==
    /\ IsOk(call.ret)
    /\ IsSome(call.ret[2][2])
    /\ IsJson(Response)
    /\ IsJObject(Response[2])
    /\ DOMAIN Response[2][2] = {"type", "message"}
    /\ Response[2][2]["type"] = JString(S("Error"))

ErrorMessage == Response[2][2]["message"][2]

\* The string msg contains the string part.
Carries(msg, part) ==
    \E i \in 1..Len(msg) :
        i + Len(part) - 1 <= Len(msg) /\ SubSeq(msg, i, i + Len(part) - 1) = part

Accepted(i) == IsOk(sends[i].result)

AddMessagePayload(m) ==
    Bytes(JObject([type |-> JString(S("AddMessage")), message |-> MessageJson(m)]))

StartChatPayload == Bytes(JObject([type |-> JString(S("StartChat"))]))

GetChatStateActorIdPayload ==
    Bytes(JObject([type |-> JString(S("GetChatStateActorId"))]))

AddMessageBytes(m) == to_vec_ChatStateRequest(EnvAddMessage(m))

GenerateCompletionBytes == to_vec_ChatStateRequest(EnvGenerateCompletion)

----------------------------------------------------------------------------
\* C1: an AddMessage request handled with a valid state that holds a child id
\* sends the AddMessage envelope with the request's message to that child
\* first and the GenerateCompletion envelope to the same child second (the
\* second follows whenever the host accepted the first, and nothing else is
\* sent), and the response is Success exactly when both sends were accepted.
C1_AddMessageThenGenerate ==
    \A m \in Messages :
        (InChildSet /\ Payload = AddMessagePayload(m)) =>
            /\ Len(sends) \in {1, 2}
            /\ sends[1].to = InChild
            /\ sends[1].bytes = AddMessageBytes(m)
            /\ Accepted(1) => Len(sends) = 2
            /\ Len(sends) = 2 =>
                   /\ sends[2].to = InChild
                   /\ sends[2].bytes = GenerateCompletionBytes
            /\ ResponseIs(RespSuccess) <=>
                   (Len(sends) = 2 /\ Accepted(1) /\ Accepted(2))

C1_Witness ==
    /\ InChildSet
    /\ Payload = AddMessagePayload(Message("user", S("what changed?")))
    /\ Len(sends) = 2
    /\ Accepted(1) /\ Accepted(2)
    /\ sends[1].bytes = AddMessageBytes(Message("user", S("what changed?")))
    /\ sends[2].bytes = GenerateCompletionBytes
    /\ ResponseIs(RespSuccess)

IsAddMessageCall == \E m \in Messages : Payload = AddMessagePayload(m)

\* One of the two flows that forward twice
TwoStepFlow ==
    /\ InChildSet
    /\ \/ IsAddMessageCall
       \/ InCommit /\ Payload = StartChatPayload

\* The state handed back is the input state, serialized again.
StateKept ==
    /\ IsOk(call.ret)
    /\ ReturnedState = Some(to_vec_GitChatState(InGitState))
    /\ from_slice_GitChatState(ReturnedState[1]) = Ok(InGitState)
    /\ state = ReturnedState

\* C2: in both two-step flows, when the host rejects the first send (the
\* AddMessage envelope) no GenerateCompletion send is attempted in that
\* invocation and the response is Error carrying the cause of that failure.
C2_FirstFailureStops ==
    (TwoStepFlow /\ Len(sends) >= 1 /\ ~Accepted(1)) =>
        /\ Len(sends) = 1
        /\ \A i \in 1..Len(sends) : sends[i].bytes # GenerateCompletionBytes
        /\ IsErrorResponse
        /\ Carries(ErrorMessage, sends[1].result[2])

C2_Witness ==
    /\ InChildSet /\ InCommit /\ Payload = StartChatPayload
    /\ Len(sends) = 1 /\ ~Accepted(1)
    /\ sends[1].bytes = AddMessageBytes(AutoCommitMessage)
    /\ IsErrorResponse
    /\ Carries(ErrorMessage, S("mailbox closed"))

\* C3: forwarding is not transactional.  When the content message is accepted
\* and the generation request is rejected, the response is Error, the child
\* has been handed exactly the content message, nothing is sent or requested
\* afterwards, and the state is returned as it was.
C3_NoRollback ==
    (TwoStepFlow /\ Len(sends) >= 2 /\ Accepted(1) /\ ~Accepted(2)) =>
        /\ IsErrorResponse
        /\ Carries(ErrorMessage, sends[2].result[2])
        /\ Len(sends) = 2
        /\ sends[1].bytes # GenerateCompletionBytes
        /\ sends[1].to = InChild
        /\ sends[2].bytes = GenerateCompletionBytes
        /\ shutdowns = 0
        /\ StateKept

C3_Witness ==
    /\ InChildSet
    /\ Payload = AddMessagePayload(Message("assistant", S("done")))
    /\ Len(sends) = 2 /\ Accepted(1) /\ ~Accepted(2)
    /\ sends[1].bytes = AddMessageBytes(Message("assistant", S("done")))
    /\ IsErrorResponse
    /\ StateKept

\* C4: a StartChat request handled with a child id set.  If the workflow is
\* exactly "commit" the sends are, in order, an AddMessage with the
\* synthesized user-role message and a GenerateCompletion, both to the child:
\* two sends whenever the host accepts the first (a rejected first send is the
\* short-circuit of C2).  For every other workflow, absent included, nothing
\* is sent.
C4_StartChatForwards ==
    (InChildSet /\ Payload = StartChatPayload) =>
        IF InGitState.workflow = Some(S("commit"))
        THEN /\ Len(sends) \in {1, 2}
             /\ sends[1].to = InChild
             /\ sends[1].bytes = AddMessageBytes(AutoCommitMessage)
             /\ AutoCommitMessage.role = "user"
             /\ Accepted(1) <=> Len(sends) = 2
             /\ Len(sends) = 2 =>
                    /\ sends[2].to = InChild
                    /\ sends[2].bytes = GenerateCompletionBytes
        ELSE sends = <<>>

C4_Witness ==
    /\ InChildSet /\ InCommit /\ Payload = StartChatPayload
    /\ Len(sends) = 2
    /\ sends[1].bytes = AddMessageBytes(AutoCommitMessage)
    /\ sends[2].bytes = GenerateCompletionBytes
    /\ Accepted(1) /\ Accepted(2)

\* A StartChat handled with another workflow tag and a child id: no send.
C4_WitnessOther ==
    /\ InChildSet /\ Payload = StartChatPayload
    /\ InGitState.workflow = Some(S("Commit"))
    /\ sends = <<>>

\* C5 as stated: for any valid state a StartChat is answered Success when the
\* workflow is not "commit" or both forwards were accepted, and answered Error
\* only when one of the two forwards failed.
C5_ErrorOnlyOnFailedForward ==
    (InValid /\ Payload = StartChatPayload) =>
        /\ ~InCommit => ResponseIs(RespSuccess)
        /\ (Len(sends) = 2 /\ Accepted(1) /\ Accepted(2)) => ResponseIs(RespSuccess)
        /\ IsErrorResponse => \E i \in 1..Len(sends) : ~Accepted(i)

\* C5 amended: a StartChat is answered Success when the workflow is not
\* "commit" or both forwards were accepted; it is answered Error when a forward
\* failed, and also, with nothing sent, when the workflow is "commit" and the
\* state holds no child id.  There is no other answer.
C5_StartChatResponse ==
    (InValid /\ Payload = StartChatPayload) =>
        /\ ~InCommit => ResponseIs(RespSuccess)
        /\ (Len(sends) = 2 /\ Accepted(1) /\ Accepted(2)) => ResponseIs(RespSuccess)
        /\ IsErrorResponse <=>
               \/ \E i \in 1..Len(sends) : ~Accepted(i)
               \/ InCommit /\ ~IsSome(InGitState.chat_state_actor_id) /\ sends = <<>>
        /\ ResponseIs(RespSuccess) \/ IsErrorResponse

C5_Witness ==
    /\ InValid /\ InCommit /\ Payload = StartChatPayload
    /\ ~IsSome(InGitState.chat_state_actor_id)
    /\ sends = <<>>
    /\ IsErrorResponse

\* C6: an AddMessage request handled with a valid state that holds no child
\* id is answered Error and nothing is sent.
C6_AddMessageWithoutChild ==
    (InValid /\ ~IsSome(InGitState.chat_state_actor_id) /\ IsAddMessageCall) =>
        /\ IsErrorResponse
        /\ sends = <<>>

C6_Witness ==
    /\ InValid
    /\ ~IsSome(InGitState.chat_state_actor_id)
    /\ Payload = AddMessagePayload(Message("user", S("what changed?")))
    /\ IsErrorResponse
    /\ sends = <<>>

InitSucceeded == Len(spawns) = 1 /\ IsOk(spawns[1].result) /\ phase = "running"

\* C7: once init has succeeded, a GetChatStateActorId request handled with
\* the state init persisted (threaded through the handlers since) is answered
\* ChatStateActorId with the id the host's spawn call returned, and nothing is
\* sent.
C7_ReturnsSpawnedId ==
    (InitSucceeded /\ IsRequest /\ Payload = GetChatStateActorIdPayload) =>
        /\ ResponseIs(RespChatStateActorId(spawns[1].result[2]))
        /\ sends = <<>>

C7_Witness ==
    /\ InitSucceeded
    /\ spawns[1].result = Ok(S("child-2"))
    /\ IsRequest /\ Payload = GetChatStateActorIdPayload
    /\ ResponseIs(RespChatStateActorId(S("child-2")))
    /\ sends = <<>>

\* Request payloads that are no GitChatRequest
MalformedPayloads ==
    {Garbage,
     Bytes(JNull),
     Bytes(JObject([type |-> JString(S("AddMessage"))])),
     Bytes(JObject([type |-> JString(S("Shutdown"))])),
     Bytes(JObject([message |-> MessageJson(Message("user", S("what changed?")))]))}

\* C8: when the state deserializes and the request payload does not, the
\* handler returns normally with an Error response, sends nothing, and hands
\* back the input state, so chat_state_actor_id is what it was.
C8_MalformedRequestKeepsState ==
    (InValid /\ Payload \in MalformedPayloads) =>
        /\ IsOk(call.ret)
        /\ IsErrorResponse
        /\ sends = <<>>
        /\ StateKept
        /\ from_slice_GitChatState(state[1])[2].chat_state_actor_id
               = InGitState.chat_state_actor_id

C8_Witness ==
    /\ InChildSet
    /\ Payload = Garbage
    /\ IsOk(call.ret)
    /\ IsErrorResponse
    /\ sends = <<>>
    /\ StateKept

\* The input state of the last request was absent or did not deserialize.
InStateLost ==
    /\ IsRequest
    /\ \/ ~IsSome(call.in_state)
       \/ IsSome(call.in_state) /\ IsErr(from_slice_GitChatState(call.in_state[1]))

\* C9: a request handled with an absent state or with state bytes that are no
\* ActorState is answered Error, the state handed back is absent, and nothing
\* is sent, whatever the request payload.
C9_StateLoss ==
    InStateLost =>
        /\ IsOk(call.ret)
        /\ IsErrorResponse
        /\ ReturnedState = None
        /\ state = None
        /\ sends = <<>>

C9_Witness ==
    /\ IsRequest
    /\ call.in_state = Some(Garbage)
    /\ Payload = AddMessagePayload(Message("user", S("what changed?")))
    /\ IsErrorResponse
    /\ ReturnedState = None
    /\ sends = <<>>

\* The same with no state at all
C9_WitnessAbsent ==
    /\ IsRequest
    /\ call.in_state = None
    /\ Payload = StartChatPayload
    /\ IsErrorResponse
    /\ ReturnedState = None

\* C10: if the host's spawn call fails during init, init returns an error
\* and no state, spawn has been called once, and nothing is sent.
C10_SpawnFailureAbortsInit ==
    (call.handler = "init" /\ Len(spawns) >= 1 /\ IsErr(spawns[1].result)) =>
        /\ IsErr(call.ret)
        /\ Carries(call.ret[2], spawns[1].result[2])
        /\ Len(spawns) = 1
        /\ sends = <<>>
        /\ state = None
        /\ phase = "init_failed"

C10_Witness ==
    /\ call.handler = "init"
    /\ Len(spawns) = 1
    /\ spawns[1].result = Err(S("actor not found"))
    /\ IsErr(call.ret)
    /\ state = None
    /\ sends = <<>>

----------------------------------------------------------------------------
\* The child id of the state the host holds: None when the state is absent or
\* is no GitChatState.
PersistedChild(st) ==
    IF IsSome(st) /\ IsOk(from_slice_GitChatState(st[1]))
    THEN from_slice_GitChatState(st[1])[2].chat_state_actor_id
    ELSE None

\* C11: in every run that starts with init, where the host hands each handler
\* the state the one before returned, no invocation of any handler changes or
\* removes a child id that the persisted state holds: once Some(id), the
\* persisted chat_state_actor_id is Some(id) after every later invocation.
C11_ChildIdStable ==
    [][IsSome(PersistedChild(state)) => PersistedChild(state') = PersistedChild(state)]_vars

C11_Witness ==
    /\ InitSucceeded
    /\ ncalls >= 3
    /\ call.handler = "handle_child_exit"
    /\ PersistedChild(call.in_state) = Some(S("child-1"))
    /\ PersistedChild(state) = Some(S("child-1"))
    /\ spawns[1].result = Ok(S("child-1"))

\* Request payloads that are a GitChatRequest
WellFormedPayloads ==
    {StartChatPayload, GetChatStateActorIdPayload}
    \cup {AddMessagePayload(m) : m \in Messages}

\* C12: a well-formed request handled with a valid state returns, whatever
\* the host answered to its sends, a state that deserializes to the same
\* actor_id, chat_state_actor_id, original_config, current_directory and
\* workflow as the input state, and that state is what the host then holds.
\* No handler other than init leaves a child id in the persisted state that
\* its input state did not hold.
C12_RequestFrame ==
    /\ (InValid /\ Payload \in WellFormedPayloads) =>
           /\ IsOk(call.ret)
           /\ IsSome(ReturnedState)
           /\ state = ReturnedState
           /\ IsOk(from_slice_GitChatState(ReturnedState[1]))
           /\ LET out == from_slice_GitChatState(ReturnedState[1])[2]
              IN  /\ out.actor_id = InGitState.actor_id
                  /\ out.chat_state_actor_id = InGitState.chat_state_actor_id
                  /\ out.original_config = InGitState.original_config
                  /\ out.current_directory = InGitState.current_directory
                  /\ out.workflow = InGitState.workflow
    /\ (call.handler \notin {"init", "none"} /\ IsSome(PersistedChild(state))) =>
           PersistedChild(state) = PersistedChild(call.in_state)

C12_Witness ==
    /\ InChildSet /\ InCommit /\ Payload = StartChatPayload
    /\ InGitState.current_directory = Some(S("/repo"))
    /\ Len(sends) = 2 /\ Accepted(1) /\ ~Accepted(2)
    /\ IsErrorResponse
    /\ from_slice_GitChatState(state[1]) = Ok(InGitState)

\* The signal a task monitor sends: the unit struct TaskComplete, JSON null
TaskCompleteSignal == Bytes(JNull)

\* C13: when the task-complete signal is delivered to handle_send of an actor
\* whose init succeeded, the actor asks the host to shut it down, and the
\* invocation sends nothing to the child.
C13_TaskCompleteShutsDown ==
    (InitSucceeded /\ call.handler = "handle_send"
                   /\ call.params[1] = TaskCompleteSignal) =>
        /\ shutdowns = 1
        /\ sends = <<>>

Informational ==
    {"handle_child_error", "handle_child_exit", "handle_channel_open",
     "handle_channel_close", "handle_channel_message"}

\* C14: every invocation of handle_child_error, handle_child_exit,
\* handle_channel_open, handle_channel_close or handle_channel_message, with
\* any state (absent, valid or not), returns normally with the state it was
\* given, which the host keeps; it calls neither spawn nor send nor shutdown;
\* and handle_channel_open answers accepted = true.
C14_InformationalHandlers ==
    [][call'.handler \in Informational =>
          /\ call'.in_state = state
          /\ IsOk(call'.ret)
          /\ call'.ret[2][1] = state
          /\ state' = state
          /\ sends' = <<>>
          /\ spawns' = spawns
          /\ shutdowns' = 0
          /\ phase' = phase
          /\ call'.handler = "handle_channel_open" =>
                 call'.ret[2][2].accepted = TRUE]_vars

C14_Witness ==
    /\ call.handler = "handle_channel_open"
    /\ call.in_state = None
    /\ call.ret = Ok(<<None, ChannelAccept(TRUE, None)>>)
    /\ state = None
    /\ sends = <<>>
    /\ spawns = <<>>

\* C15: one handle_request invocation makes at most two sends, never the same
\* send twice, and none after a send the host rejected; a
\* GetChatStateActorId request makes none; the invocation returns exactly one
\* response, which is Error whenever a send was rejected and Success only if
\* every send made was accepted.
C15_NoRetries ==
    IsRequest =>
        /\ Len(sends) <= 2
        /\ \A i, j \in 1..Len(sends) : i # j => sends[i].bytes # sends[j].bytes
        /\ \A i \in 1..Len(sends) : ~Accepted(i) => i = Len(sends)
        /\ Payload = GetChatStateActorIdPayload => sends = <<>>
        /\ IsOk(call.ret) /\ Len(call.ret[2][2]) = 1
        /\ (\E i \in 1..Len(sends) : ~Accepted(i)) => IsErrorResponse
        /\ ResponseIs(RespSuccess) => \A i \in 1..Len(sends) : Accepted(i)

C15_Witness ==
    /\ InChildSet /\ InCommit /\ Payload = StartChatPayload
    /\ Len(sends) = 1 /\ ~Accepted(1)
    /\ sends[1].result = Err(S("actor not found"))
    /\ IsErrorResponse
    /\ Len(call.ret[2][2]) = 1

----------------------------------------------------------------------------
\* Reading an init invocation: the payload it was given and the configuration
\* the child was spawned with

InitCall == call.handler = "init"

\* The payload is a JSON object that deserializes as a GitAssistantConfig.
InputGiven ==
    /\ InitCall
    /\ IsSome(call.in_state)
    /\ IsOk(from_slice_GitAssistantConfig(call.in_state[1]))

Input == call.in_state[1][2][2]

\* The payload supplies key k: present and not null.
Given(k) == k \in DOMAIN Input /\ Input[k] # JNull

Composed == spawns[1].bytes[1][2][2]["config"][2]

ComposedPrompt == Composed["system_prompt"][2]

ExpectedDirectoryBlock ==
    IF Given("current_directory")
    THEN directory_context(Some(Input["current_directory"][2]))
    ELSE <<>>

ExpectedWorkflowBlock ==
    IF ~Given("workflow") THEN <<>>
    ELSE IF Input["workflow"] = JString(S("commit")) THEN CommitBlock
    ELSE IF Input["workflow"] = JString(S("review")) THEN ReviewBlock
    ELSE IF Input["workflow"] = JString(S("rebase")) THEN RebaseBlock
    ELSE <<>>

StartsWith(str, prefix) ==
    Len(prefix) <= Len(str) /\ SubSeq(str, 1, Len(prefix)) = prefix

EndsWith(str, suffix) ==
    /\ Len(suffix) <= Len(str)
    /\ SubSeq(str, Len(str) - Len(suffix) + 1, Len(str)) = suffix

\* C16: when the initial configuration supplies system_prompt = P, the prompt
\* of the composed configuration is P, then the directory block, then the
\* workflow block: P is its prefix, unmodified; the directory block is empty
\* when current_directory is not supplied and names the directory otherwise;
\* the workflow block is empty when workflow is not supplied or is none of
\* commit, review, rebase; the default prompt text is not part of it.
C16_CustomPromptComposition ==
    (InputGiven /\ Given("system_prompt")) =>
        LET P == Input["system_prompt"][2]
        IN  /\ ComposedPrompt = P \o ExpectedDirectoryBlock \o ExpectedWorkflowBlock
            /\ StartsWith(ComposedPrompt, P)
            /\ EndsWith(ComposedPrompt, ExpectedWorkflowBlock)
            /\ (~Given("current_directory") /\ ExpectedWorkflowBlock = <<>>) =>
                   ComposedPrompt = P
            /\ Given("current_directory") =>
                   /\ ExpectedDirectoryBlock # <<>>
                   /\ Carries(ComposedPrompt, Input["current_directory"][2])
            /\ ~Carries(ComposedPrompt, DefaultPromptText)

C16_Witness ==
    /\ InputGiven
    /\ Given("system_prompt") /\ Input["system_prompt"] = JString(S("Be terse."))
    /\ Given("current_directory") /\ Input["current_directory"] = JString(S("/repo"))
    /\ Given("workflow") /\ Input["workflow"] = JString(S("review"))
    /\ ComposedPrompt = S("Be terse.") \o directory_context(Some(S("/repo")))
                            \o ReviewBlock

WorkflowBlocks == {CommitBlock, ReviewBlock, RebaseBlock}

\* C17: when the initial configuration supplies no system_prompt, the prompt
\* of the composed configuration is the default prompt text, then the
\* directory block, then the workflow block chosen by exact match of workflow
\* with commit, review or rebase.  It contains the block of its own tag and
\* no other workflow block; with workflow absent or any other tag (deploy,
\* Commit) it contains none, and init goes on as with any other payload: the
\* child is spawned and init succeeds exactly if the spawn does.
C17_DefaultPromptComposition ==
    (InputGiven /\ ~Given("system_prompt")) =>
        /\ ComposedPrompt = DefaultPromptText \o ExpectedDirectoryBlock
                                \o ExpectedWorkflowBlock
        /\ StartsWith(ComposedPrompt, DefaultPromptText)
        /\ EndsWith(ComposedPrompt, ExpectedWorkflowBlock)
        /\ \A b \in WorkflowBlocks :
               Carries(ComposedPrompt, b) <=> ExpectedWorkflowBlock = b
        /\ Carries(ComposedPrompt, ReviewBlock) <=>
               (Given("workflow") /\ Input["workflow"] = JString(S("review")))
        /\ Len(spawns) = 1
        /\ IsOk(call.ret) <=> IsOk(spawns[1].result)

C17_Witness ==
    /\ InputGiven /\ ~Given("system_prompt")
    /\ Given("workflow") /\ Input["workflow"] = JString(S("review"))
    /\ ~Given("current_directory")
    /\ ComposedPrompt = DefaultPromptText \o ReviewBlock
    /\ ~Carries(ComposedPrompt, CommitBlock)
    /\ ~Carries(ComposedPrompt, RebaseBlock)
    /\ IsOk(call.ret)

\* An unrecognized tag adds no block and init succeeds.
C17_WitnessUnrecognized ==
    /\ InputGiven /\ ~Given("system_prompt")
    /\ Given("workflow") /\ Input["workflow"] = JString(S("Commit"))
    /\ ComposedPrompt = DefaultPromptText
    /\ IsOk(call.ret)

FixedKeys ==
    {"model_config", "temperature", "max_tokens", "system_prompt", "title",
     "description", "mcp_servers"}

\* The value a fixed key must have: the payload's own value for that key, or
\* the default when the payload does not supply it.
FixedValue(k, default) == IF Given(k) THEN Input[k] ELSE default

\* C18: the configuration the child is spawned with always holds the seven
\* fixed keys, whatever the payload (none, undecodable, any object).  For a
\* payload that deserializes, every key that GitAssistantConfig does not name
\* is in the output with the payload's value, the output holds no other key
\* besides the fixed ones, and the value of each fixed key is the one the
\* payload gives for that very key, or its default: no other key of the
\* payload (Title, model, session, retries) changes it.
C18_MergePassthrough ==
    /\ InitCall => FixedKeys \subseteq DOMAIN Composed
    /\ InputGiven =>
           /\ \A k \in DOMAIN Input \ NamedFields :
                  k \in DOMAIN Composed /\ Composed[k] = Input[k]
           /\ DOMAIN Composed = FixedKeys \cup (DOMAIN Input \ NamedFields)
           /\ Composed["title"] = FixedValue("title", JString(S("Git Assistant")))
           /\ Composed["description"] =
                  FixedValue("description", JString(S("AI assistant with git tools for repository management and commit workflows")))
           /\ Composed["model_config"] =
                  FixedValue("model_config",
                      JObject([model |-> JString(S("claude-sonnet-4-20250514")),
                               provider |-> JString(S("anthropic"))]))
           /\ Composed["temperature"] = FixedValue("temperature", JNumber(7, 1))
           /\ Composed["max_tokens"] = FixedValue("max_tokens", JNumber(8192, 0))
           /\ Given("mcp_servers") => Composed["mcp_servers"] = Input["mcp_servers"]
           /\ IsJString(Composed["system_prompt"])
           /\ ComposedPrompt =
                  (IF Given("system_prompt") THEN Input["system_prompt"][2]
                                             ELSE DefaultPromptText)
                  \o ExpectedDirectoryBlock \o ExpectedWorkflowBlock

C18_Witness ==
    /\ InputGiven
    /\ {"session", "Title", "model", "retries", "title"} \subseteq DOMAIN Input
    /\ Composed["session"] = JString(S("s-1"))
    /\ Composed["Title"] = JString(S("Mine"))
    /\ Composed["model"] = JObject([model |-> JString(S("other"))])
    /\ Composed["retries"] = JNumber(3, 0)
    /\ Composed["title"] = JString(S("T"))
    /\ Composed["model_config"] # Composed["model"]

GitToolServer ==
    JObject([actor_id |-> JNull,
             actor |-> JObject([manifest_path |->
                 JString(S("/Users/colinrozzi/work/actor-registry/git-mcp-actor/manifest.toml"))]),
             tools |-> JNull])

TaskMonitorServer(manager) ==
    JObject([actor_id |-> JNull,
             actor |-> JObject([manifest_path |->
                 JString(S("/Users/colinrozzi/work/actor-registry/task-monitor-mcp-actor/manifest.toml"))]),
             config |-> JObject([management_actor |-> JString(manager)]),
             tools |-> JNull])

\* C19: if the payload supplies mcp_servers (an empty list included), the
\* composed mcp_servers is that value and nothing else; if it does not (no
\* payload, an undecodable one, the key missing or null), it is the list of
\* the git-tool server and the task-monitor server, in that order, the
\* latter with management_actor = the self_id init was called with.
C19_McpServers ==
    InitCall =>
        IF InputGiven /\ Given("mcp_servers")
        THEN Composed["mcp_servers"] = Input["mcp_servers"]
        ELSE /\ Composed["mcp_servers"] =
                    JArray(<<GitToolServer, TaskMonitorServer(call.params[1])>>)
             /\ Composed["mcp_servers"][2][2][2]["config"][2]["management_actor"]
                    = JString(call.params[1])

C19_Witness ==
    /\ InputGiven /\ ~Given("mcp_servers")
    /\ call.params[1] = S("git-chat-2")
    /\ Len(Composed["mcp_servers"][2]) = 2
    /\ Composed["mcp_servers"][2][2][2]["config"]
           = JObject([management_actor |-> JString(S("git-chat-2"))])

\* A supplied list, here the empty one, is taken as it is.
C19_WitnessSupplied ==
    /\ InputGiven /\ Given("mcp_servers")
    /\ Input["mcp_servers"] = JArray(<<>>)
    /\ Composed["mcp_servers"] = JArray(<<>>)

\* C20: once a request was handled with an absent or undecodable state, the
\* host holds no state, and from then on it never holds one again: every
\* later invocation leaves the state absent and spawns nothing, and every
\* later request, whatever its payload, is answered Error, returns no state
\* and sends nothing.
C20_StateLossPermanent ==
    [][/\ InStateLost' => state' = None
       /\ (state = None /\ phase = "running") =>
              /\ state' = None
              /\ PersistedChild(state') = None
              /\ spawns' = spawns
              /\ IsRequest' =>
                     /\ IsErrorResponse'
                     /\ ReturnedState' = None
                     /\ sends' = <<>>]_vars

C20_Witness ==
    /\ IsRequest
    /\ ncalls >= 2
    /\ call.in_state = None
    /\ Payload = GetChatStateActorIdPayload
    /\ IsErrorResponse
    /\ ReturnedState = None
    /\ state = None
    /\ sends = <<>>

----------------------------------------------------------------------------
\* The state the host holds, deserialized
PersistedState == from_slice_GitChatState(state[1])[2]

\* A field of the payload as init reads it: Some(string) or None
InputOption(k) ==
    IF InputGiven /\ Given(k) THEN Some(Input[k][2]) ELSE None

\* The composition for the payload init was given: of the parsed payload, or
\* of the defaults when there is no payload or it does not deserialize
ExpectedComposition ==
    IF InputGiven
    THEN create_git_optimized_config(call.params[1],
             InputOption("current_directory"),
             from_slice_GitAssistantConfig(call.in_state[1])[2])
    ELSE create_git_optimized_config(call.params[1], None,
                                     GitAssistantConfig_default)

\* C21: init composes, then spawns, then persists.  The one spawn call of
\* init names the fixed manifest and carries the envelope {"config": C}, C
\* being the composition for the payload init was given, and init sends
\* nothing.  If the spawn succeeds the state init returns holds that same C as
\* original_config, the self id as actor_id, the payload's current_directory
\* and workflow, and the id the spawn returned; if it fails there is no state.
\* Afterwards the persisted original_config stays C, no further spawn is made,
\* and no send to the child carries a configuration.
C21_InitOrder ==
    /\ InitCall =>
           /\ Len(spawns) = 1
           /\ spawns[1].manifest = ChatStateManifest
           /\ spawns[1].bytes = Some(Bytes(JObject([config |-> ExpectedComposition])))
           /\ DOMAIN spawns[1].bytes[1][2][2] = {"config"}
           /\ FixedKeys \subseteq DOMAIN Composed
           /\ sends = <<>>
           /\ IF IsOk(spawns[1].result)
              THEN /\ IsOk(call.ret)
                   /\ state = call.ret[2][1]
                   /\ IsSome(state)
                   /\ IsOk(from_slice_GitChatState(state[1]))
                   /\ PersistedState.original_config = JObject(Composed)
                   /\ PersistedState.actor_id = call.params[1]
                   /\ PersistedState.current_directory
                          = InputOption("current_directory")
                   /\ PersistedState.workflow = InputOption("workflow")
                   /\ PersistedState.chat_state_actor_id
                          = Some(spawns[1].result[2])
              ELSE IsErr(call.ret) /\ state = None
    /\ InitSucceeded =>
           /\ PersistedState.original_config = JObject(Composed)
           /\ \A i \in 1..Len(sends) :
                  /\ IsJson(sends[i].bytes) /\ IsJObject(sends[i].bytes[2])
                  /\ DOMAIN sends[i].bytes[2][2] \subseteq {"type", "message"}
                  /\ \A k \in DOMAIN sends[i].bytes[2][2] :
                         sends[i].bytes[2][2][k] # PersistedState.original_config

C21_Witness ==
    /\ InitCall /\ InputGiven
    /\ Input = [workflow |-> JString(S("review")),
                current_directory |-> JString(S("/repo"))]
    /\ call.params[1] = S("git-chat-2")
    /\ spawns[1].result = Ok(S("child-1"))
    /\ PersistedState.original_config = JObject(Composed)
    /\ PersistedState.workflow = Some(S("review"))
    /\ PersistedState.current_directory = Some(S("/repo"))
    /\ PersistedState.actor_id = S("git-chat-2")
    /\ PersistedState.chat_state_actor_id = Some(S("child-1"))

\* Later: two sends were made and the child was spawned once, with C.
C21_WitnessLater ==
    /\ InitSucceeded
    /\ IsRequest /\ Len(sends) = 2
    /\ PersistedState.original_config = JObject(Composed)

NotInitialized == S("Chat state actor not initialized")

\* C22: after a successful init the persisted state holds a child id, in the
\* state init returned and in every state the handlers return afterwards, so
\* no request of such a run is answered with the error of a missing child id:
\* neither 'Chat state actor not initialized' (GetChatStateActorId,
\* AddMessage) nor the StartChat error built from it.
C22_ChildIdAlwaysSet ==
    InitSucceeded =>
        /\ IsSome(state)
        /\ IsOk(from_slice_GitChatState(state[1]))
        /\ PersistedState.chat_state_actor_id = Some(spawns[1].result[2])
        /\ IsRequest =>
               /\ InChildSet
               /\ IsErrorResponse => ~Carries(ErrorMessage, NotInitialized)
               /\ Payload = GetChatStateActorIdPayload =>
                      ResponseIs(RespChatStateActorId(InChild))
               /\ (IsAddMessageCall \/ (InCommit /\ Payload = StartChatPayload)) =>
                      Len(sends) >= 1

C22_Witness ==
    /\ InitSucceeded
    /\ ncalls >= 3
    /\ IsRequest /\ InCommit /\ Payload = StartChatPayload
    /\ InChildSet
    /\ Len(sends) = 2
    /\ ResponseIs(RespSuccess)

\* C23: in the lifetime of an actor spawn is called at most once, and only by
\* init; a send is made only by handle_request and only after a spawn that
\* succeeded; every send of a request goes to the chat_state_actor_id of the
\* state the request was invoked with, which is the id that spawn returned;
\* both sends of a two-step flow go to that one id.
C23_OneChildOneTarget ==
    [][/\ spawns' # spawns =>
              /\ call'.handler = "init"
              /\ spawns = <<>>
              /\ Len(spawns') = 1
       /\ sends' # <<>> =>
              /\ call'.handler = "handle_request"
              /\ spawns' = spawns
              /\ Len(spawns) = 1 /\ IsOk(spawns[1].result)
              /\ IsSome(PersistedChild(state))
              /\ \A i \in 1..Len(sends') :
                     /\ sends'[i].to = PersistedChild(state)[1]
                     /\ sends'[i].to = spawns[1].result[2]
                     /\ sends'[i].to = sends'[1].to]_vars

C23_Witness ==
    /\ InitSucceeded
    /\ spawns[1].result = Ok(S("child-2"))
    /\ IsRequest /\ IsAddMessageCall
    /\ Len(sends) = 2
    /\ sends[1].to = S("child-2") /\ sends[2].to = S("child-2")
    /\ InChild = S("child-2")
    /\ ncalls >= 2

\* The state is a JSON array of bytes, and those bytes are JSON null.
StateIsTaskComplete(st) ==
    /\ IsSome(st)
    /\ IsJson(st[1])
    /\ IsJByteArray(st[1][2])
    /\ st[1][2][2] = Bytes(JNull)

\* C24: what a handle_send invocation returns, whether it requests shutdown
\* and the state it leaves are determined by the state it is given, whatever
\* the message payload: with no state it returns the error 'No state
\* available' and requests no shutdown; with a state that is a byte array
\* holding null it returns that state and requests shutdown; with any other
\* state it returns an error and requests no shutdown.  It never sends or
\* spawns, and two invocations in a row on the same state, with the same or
\* with different payloads, have the same outcome.
C24_SendIgnoresPayload ==
    [][call'.handler = "handle_send" =>
          /\ call'.in_state = state
          /\ IF state = None
             THEN /\ call'.ret = Err(S("No state available"))
                  /\ shutdowns' = 0
                  /\ state' = None
             ELSE IF StateIsTaskComplete(state)
             THEN /\ call'.ret = Ok(<<state>>)
                  /\ shutdowns' = 1
                  /\ state' = state
             ELSE /\ IsErr(call'.ret)
                  /\ shutdowns' = 0
                  /\ state' = state
          /\ sends' = <<>>
          /\ spawns' = spawns
          /\ (call.handler = "handle_send" /\ call.in_state = state) =>
                 /\ call'.ret = call.ret
                 /\ shutdowns' = shutdowns]_vars

\* Shutdown is requested although the payload is no TaskComplete.
C24_Witness ==
    /\ call.handler = "handle_send"
    /\ call.params = <<Garbage>>
    /\ StateIsTaskComplete(call.in_state)
    /\ IsOk(call.ret)
    /\ shutdowns = 1

\* The task-complete payload on an absent state: an error and no shutdown
C24_WitnessAbsent ==
    /\ call.handler = "handle_send"
    /\ call.params = <<TaskCompleteSignal>>
    /\ call.in_state = None
    /\ call.ret = Err(S("No state available"))
    /\ shutdowns = 0

\* The actor was created with a payload that is no GitAssistantConfig.
PayloadInvalid ==
    /\ IsSome(init_payload)
    /\ IsErr(from_slice_GitAssistantConfig(init_payload[1]))

\* The configuration composed from no input at all
AllDefaults(self_id) ==
    JObject([model_config |->
                 JObject([model |-> JString(S("claude-sonnet-4-20250514")),
                          provider |-> JString(S("anthropic"))]),
             temperature |-> JNumber(7, 1),
             max_tokens |-> JNumber(8192, 0),
             system_prompt |-> JString(DefaultPromptText),
             title |-> JString(S("Git Assistant")),
             description |-> JString(S("AI assistant with git tools for repository management and commit workflows")),
             mcp_servers |-> JArray(<<GitToolServer, TaskMonitorServer(self_id)>>)])

\* C25: when the actor is created with a payload that is present and does not
\* deserialize as a configuration (bytes that are no JSON, or an object with a
\* field of the wrong type, whatever else it supplies), init does not fail for
\* that: it spawns the child with the all-defaults configuration and succeeds
\* exactly if the spawn does; the state it persists holds that configuration
\* and neither workflow nor current_directory, and stays so; every later
\* StartChat is answered Success and sends nothing.
C25_InvalidPayloadDefaults ==
    PayloadInvalid =>
        /\ InitCall =>
               /\ Len(spawns) = 1
               /\ call.in_state = init_payload
               /\ spawns[1].bytes =
                      Some(Bytes(JObject([config |-> AllDefaults(call.params[1])])))
               /\ IsOk(call.ret) <=> IsOk(spawns[1].result)
               /\ IsOk(call.ret) => phase = "running"
        /\ InitSucceeded =>
               /\ PersistedState.workflow = None
               /\ PersistedState.current_directory = None
               /\ PersistedState.original_config = AllDefaults(PersistedState.actor_id)
               /\ (IsRequest /\ Payload = StartChatPayload) =>
                      /\ ResponseIs(RespSuccess)
                      /\ sends = <<>>

C25_Witness ==
    /\ init_payload = Some(Bytes(JObject([workflow |-> JString(S("commit")),
                                          max_tokens |-> JNumber(-1, 0)])))
    /\ PayloadInvalid
    /\ InitSucceeded
    /\ IsRequest /\ Payload = StartChatPayload
    /\ InChildSet
    /\ ResponseIs(RespSuccess)
    /\ sends = <<>>

\* The same with bytes that are no JSON, at init
C25_WitnessInit ==
    /\ init_payload = Some(Garbage)
    /\ InitCall
    /\ IsOk(call.ret)
    /\ PersistedState.workflow = None

====
